---- MODULE Spec2Model ----
(***************************************************************************)
(* Model of the mocking pipeline of worker.go: MockTable, tableMocker,     *)
(* columnExtractor, BackupConstraintsAndStartDataLoading, CommitData,      *)
(* CopyData, addDataIfItsASerialDatatype and skipTablesWarning.            *)
(*                                                                         *)
(* The program is one sequential flow.  Each action below is one stretch   *)
(* of that flow between two calls to an external collaborator (the         *)
(* database, the DDL backup, the value generator, the prompt); `pc' is the *)
(* position of the flow.  Every external call is recorded in `log', in the *)
(* order in which it is made.                                              *)
(***************************************************************************)
EXTENDS Integers, Sequences, FiniteSets, TLC

\* ------------------------------------------------------------------ bounds
\* The longest table list handed to MockTable.
MaxTables == 3
\* The largest value of the row count option (cmdOptions.Rows).
MaxRows == 2

\* ----------------------------------------------------------------- strings
\* strings.HasPrefix
HasPrefix(s, prefix) ==
    /\ Len(s) >= Len(prefix)
    /\ SubSeq(s, 1, Len(prefix)) = prefix

\* The result of a call that returned a nil error.
NoErr == "<nil>"

\* ------------------------------------------------------- the database schema
\* Column descriptors (DBColumns): name, declared datatype, default expression.
Col(name, datatype, sequence) ==
    [Column |-> name, Datatype |-> datatype, Sequence |-> sequence]

\* Table descriptors (DBTables).
Tab(schema, table) == [Schema |-> schema, Table |-> table]

\* The tables of the database the run is pointed at, with their columns in
\* ordinal order, as columnExtractorPostgres / columnExtractorGPDB return them.
Schema ==
    << [t |-> Tab("public", "counter"),
        c |-> << Col("id", "integer", "nextval('counter_id_seq'::regclass)") >>],
       [t |-> Tab("public", "orders"),
        c |-> << Col("shape", "geometry", "") >>],
       [t |-> Tab("audit", "pairs"),
        c |-> << Col("a", "integer", "nextval('pairs_a_seq'::regclass)"),
                 Col("b", "bigint", "nextval('pairs_b_seq'::regclass)") >>],
       [t |-> Tab("audit", "empty"),
        c |-> << >>],
       [t |-> Tab("audit", "events"),
        c |-> << Col("at", "timestamp", "now()"),
                 Col("id", "bigint", "nextval('events_id_seq'::regclass)"),
                 Col("note", "text", "") >>] >>

DBTables == {Schema[k].t : k \in 1..Len(Schema)}

\* The columns of table t (lines 70-74; both dialects return the column list).
enumerateColumns(t) ==
    LET k == CHOOSE k \in 1..Len(Schema) : Schema[k].t = t
    IN  Schema[k].c

\* Sequences over S of length at most n without repetition.
DistinctSeqs(S, n) ==
    {s \in UNION {[1..m -> S] : m \in 0..n} :
        \A a, b \in 1..Len(s) : a # b => s[a] # s[b]}

\* ------------------------------------------------------------ classification
\* Generate table name (lines 229-231): "schema"."table"
GenerateTableName(tab, schema) ==
    "\"" \o schema \o "\".\"" \o tab \o "\""

\* A variant of isItSerialDatatype that takes every column with a default
\* expression for a sequence.
isItSerialDatatypeAnyDefault(c) ==
    IF c.Sequence # "" THEN TRUE ELSE FALSE

\* Is it serial data type (lines 221-226).
isItSerialDatatype(c) ==
    IF HasPrefix(c.Sequence, "nextval") THEN TRUE ELSE FALSE

\* A variant of checkIfOneColumnIsASerialDatatype that saves every table with
\* one column, sequence or not.
checkIfOneColumnIsASerialDatatypeUnchecked(t, c, one) ==
    LET tab == GenerateTableName(t.Table, t.Schema)
    IN  Append(one, tab)

\* Check its a serial datatype (lines 187-196): the value of the list
\* oneColumnTable after the call, `one' being its value before.
checkIfOneColumnIsASerialDatatype(t, c, one) ==
    LET tab == GenerateTableName(t.Table, t.Schema)
        column == c[1]
    IN  IF isItSerialDatatype(column) THEN Append(one, tab) ELSE one

\* The loop of lines 85-89 from column k on: the columns that are no sequence.
RECURSIVE nonSerialColumns(_, _, _)
nonSerialColumns(columns, k, tempColumns) ==
    IF k > Len(columns) THEN tempColumns
    ELSE nonSerialColumns(columns, k + 1,
            IF ~isItSerialDatatype(columns[k])
            THEN Append(tempColumns, columns[k])
            ELSE tempColumns)

\* A TableCollection (lines 9-12): the table and the columns to fill.
TableCollection(t, columns) ==
    [Schema |-> t.Schema, Table |-> t.Table, Columns |-> columns]

\* A variant of the loop of lines 68-96 without the test of line 92: a table
\* is collected also when no column is left.
RECURSIVE extractFromKeepingEmpty(_, _, _)
extractFromKeepingEmpty(tbls, k, acc) ==
    IF k > Len(tbls) THEN acc
    ELSE
        LET t == tbls[k]
            columns == enumerateColumns(t)
            one == IF Len(columns) = 1
                   THEN checkIfOneColumnIsASerialDatatype(t, columns, acc.oneColumnTable)
                   ELSE acc.oneColumnTable
            tempColumns == nonSerialColumns(columns, 1, << >>)
            coll == Append(acc.collection, TableCollection(t, tempColumns))
        IN  extractFromKeepingEmpty(tbls, k + 1,
                [collection |-> coll, oneColumnTable |-> one])

\* The loop of lines 68-96 from table k on; acc holds the collection built so
\* far and the list oneColumnTable.
RECURSIVE extractFrom(_, _, _)
extractFrom(tbls, k, acc) ==
    IF k > Len(tbls) THEN acc
    ELSE
        LET t == tbls[k]
            columns == enumerateColumns(t)
            one == IF Len(columns) = 1
                   THEN checkIfOneColumnIsASerialDatatype(t, columns, acc.oneColumnTable)
                   ELSE acc.oneColumnTable
            tempColumns == nonSerialColumns(columns, 1, << >>)
            coll == IF Len(tempColumns) > 0
                    THEN Append(acc.collection, TableCollection(t, tempColumns))
                    ELSE acc.collection
        IN  extractFrom(tbls, k + 1, [collection |-> coll, oneColumnTable |-> one])

\* columnExtractor (lines 60-98): the collection it returns and the list
\* oneColumnTable it leaves, `one' being that list before the call.
columnExtractor(tbls, one) ==
    extractFrom(tbls, 1, [collection |-> << >>, oneColumnTable |-> one])

\* ------------------------------------------------------------------- state
VARIABLES
    tables,          \* the argument of MockTable
    cmdOptions,      \* Rows, IgnoreConstraint, DontPrompt
    pc,              \* the position of the flow
    collection,      \* tableMocker's `columns': the result of columnExtractor
    skippedTab,      \* the package variable skippedTab
    oneColumnTable,  \* the package variable oneColumnTable
    tIdx,            \* the table of the loop of lines 108-115 (1-based)
    i,               \* CommitData's row counter
    cIdx,            \* the column of the loop of lines 146-161 (1-based)
    col,             \* CommitData's col
    data,            \* CommitData's data
    dbOpen,          \* CommitData's db is connected and not yet closed
    sIdx,            \* the table of the loop of lines 200-217 (1-based)
    total,           \* addDataIfItsASerialDatatype's total
    log,             \* the calls made to the collaborators in this run, in order
    earlier          \* what the earlier runs of MockTable in this process did

vars == << earlier, tables, cmdOptions, pc, collection, skippedTab, oneColumnTable,
           tIdx, i, cIdx, col, data, dbOpen, sIdx, total, log >>

\* One call to a collaborator: what is called, the table or message it is
\* called with, the column names and the values it is given.  The calls of
\* CommitData's row loop carry the row counter, the others row 0.
EvRow(op, arg, c, d, r) ==
    [op |-> op, arg |-> arg, col |-> c, data |-> d, row |-> r]

Ev(op, arg, c, d) == EvRow(op, arg, c, d, 0)

Init ==
    /\ tables \in DistinctSeqs(DBTables, MaxTables)
    /\ cmdOptions \in [Rows : 0..MaxRows,
                       IgnoreConstraint : BOOLEAN,
                       DontPrompt : BOOLEAN]
    /\ pc = "MockTable"
    /\ collection = << >>
    /\ skippedTab = << >>
    /\ oneColumnTable = << >>
    /\ tIdx = 0
    /\ i = 0
    /\ cIdx = 0
    /\ col = << >>
    /\ data = << >>
    /\ dbOpen = FALSE
    /\ sIdx = 0
    /\ total = 0
    /\ log = << >>
    /\ earlier = << >>

\* ------------------------------------------------------------ collaborators
\* What BuildData can return for a datatype: a value and no error, the error
\* of a datatype it has no generator for, or another error.
BuildDataErrors(datatype) ==
    {NoErr,
     "unsupported datatypes found: " \o datatype,
     "strconv.Atoi: parsing \"" \o datatype \o "\": invalid syntax"}

\* The value BuildData returns for a datatype, as fmt.Sprintf("%v", d) prints it.
BuildDataValue(datatype) == "mock:" \o datatype

\* What db.CopyFrom and ExecuteDB can return.
DBErrors == {NoErr, "pq: connection reset by peer"}

\* ----------------------------------------------------------------- actions
\* The table CommitData is loading.
CurrentTable == collection[tIdx]

\* The head of the loop of lines 108-115 for table k, and line 118 after it.
LoadTable(k) ==
    /\ tIdx' = k
    /\ IF k <= Len(collection)
       THEN /\ pc' = "RemoveConstraints"
            /\ UNCHANGED << sIdx, total >>
       ELSE /\ pc' = "addDataIfItsASerialDatatype"
            /\ sIdx' = 1
            /\ total' = 0

\* Fatalf (lines 156, 181, 212), called after the collaborator `what' failed
\* on table `tab': it reports the failure and ends the process at once; no
\* deferred call runs and nothing is left to do.
Fatalf(tab, what, lg) ==
    /\ pc' = "fatal"
    /\ log' = Append(Append(lg, Ev("Failed", tab, << >>, << what >>)),
                     Ev("Fatalf", tab, << >>, << >>))

\* A variant of MockTable without the test of line 25.
MockTableUnguarded ==
    /\ pc = "MockTable"
    /\ pc' = "tableMocker"
    /\ UNCHANGED << earlier, tables, cmdOptions, collection, skippedTab, oneColumnTable,
                    tIdx, i, cIdx, col, data, dbOpen, sIdx, total, log >>

\* MockTable, lines 21-27 and 31-33.
MockTable ==
    /\ pc = "MockTable"
    /\ IF Len(tables) > 0
       THEN /\ pc' = "tableMocker"
            /\ UNCHANGED log
       ELSE /\ pc' = "done"
            /\ log' = Append(log, Ev("Warn", "No table available to mock the data, closing the program", << >>, << >>))
    /\ UNCHANGED << earlier, tables, cmdOptions, collection, skippedTab, oneColumnTable,
                    tIdx, i, cIdx, col, data, dbOpen, sIdx, total >>

\* tableMocker, lines 37-44: the confirmation, whose answer is dropped.
YesOrNoConfirmation ==
    /\ pc = "tableMocker"
    /\ pc' = "columnExtractor"
    /\ IF ~cmdOptions.DontPrompt
       THEN log' = Append(log, Ev("YesOrNoConfirmation", "", << >>, << >>))
       ELSE UNCHANGED log
    /\ UNCHANGED << earlier, tables, cmdOptions, collection, skippedTab, oneColumnTable,
                    tIdx, i, cIdx, col, data, dbOpen, sIdx, total >>

\* A variant of lines 48-56 without the test of line 52.
ExtractColumnsUnguarded ==
    /\ pc = "columnExtractor"
    /\ LET r == columnExtractor(tables, oneColumnTable)
       IN  /\ collection' = r.collection
           /\ oneColumnTable' = r.oneColumnTable
    /\ pc' = "BackupDDL"
    /\ UNCHANGED << earlier, tables, cmdOptions, skippedTab,
                    tIdx, i, cIdx, col, data, dbOpen, sIdx, total, log >>

\* A variant of lines 48-56 in which the collection is a package variable
\* like oneColumnTable: it keeps the TableCollections of the earlier call.
ExtractColumnsKeepingEarlier ==
    /\ pc = "columnExtractor"
    /\ LET r == columnExtractor(tables, oneColumnTable)
           kept == IF earlier # << >> THEN earlier[1].collection ELSE << >>
       IN  /\ collection' = kept \o r.collection
           /\ oneColumnTable' = r.oneColumnTable
           /\ IF Len(kept \o r.collection) > 0
              THEN /\ pc' = "BackupDDL"
                   /\ UNCHANGED log
              ELSE /\ pc' = "FixConstraints"
                   /\ log' = Append(log, Ev("Warn", "No columns available to mock the data, closing the program", << >>, << >>))
    /\ UNCHANGED << earlier, tables, cmdOptions, skippedTab,
                    tIdx, i, cIdx, col, data, dbOpen, sIdx, total >>

\* tableMocker, lines 48-56: classification and the branch on its result.
ExtractColumns ==
    /\ pc = "columnExtractor"
    /\ LET r == columnExtractor(tables, oneColumnTable)
       IN  /\ collection' = r.collection
           /\ oneColumnTable' = r.oneColumnTable
           /\ IF Len(r.collection) > 0
              THEN /\ pc' = "BackupDDL"
                   /\ UNCHANGED log
              ELSE /\ pc' = "FixConstraints"
                   /\ log' = Append(log, Ev("Warn", "No columns available to mock the data, closing the program", << >>, << >>))
    /\ UNCHANGED << earlier, tables, cmdOptions, skippedTab,
                    tIdx, i, cIdx, col, data, dbOpen, sIdx, total >>

\* A variant of lines 101-108 that backs the DDL up only when constraints
\* are not ignored.
BackupDDLUnlessIgnored ==
    /\ pc = "BackupDDL"
    /\ IF ~cmdOptions.IgnoreConstraint
       THEN log' = Append(log, Ev("BackupDDL", "", << >>, << >>))
       ELSE UNCHANGED log
    /\ LoadTable(1)
    /\ UNCHANGED << earlier, tables, cmdOptions, collection, skippedTab, oneColumnTable,
                    i, cIdx, col, data, dbOpen >>

\* A variant of BackupConstraintsAndStartDataLoading that goes to the
\* insertions of line 118 without the table loop of lines 108-115 before.
BackupDDLInsertingFirst ==
    /\ pc = "BackupDDL"
    /\ log' = Append(log, Ev("BackupDDL", "", << >>, << >>))
    /\ pc' = "addDataIfItsASerialDatatype"
    /\ sIdx' = 1
    /\ total' = 0
    /\ UNCHANGED << earlier, tables, cmdOptions, collection, skippedTab, oneColumnTable,
                    tIdx, i, cIdx, col, data, dbOpen >>

\* BackupConstraintsAndStartDataLoading, lines 101-108.
BackupDDL ==
    /\ pc = "BackupDDL"
    /\ log' = Append(log, Ev("BackupDDL", "", << >>, << >>))
    /\ LoadTable(1)
    /\ UNCHANGED << earlier, tables, cmdOptions, collection, skippedTab, oneColumnTable,
                    i, cIdx, col, data, dbOpen >>

\* A variant of lines 110-111 that also removes the constraints of the
\* tables registered in oneColumnTable.
RemoveConstraintsOfSequenceOnlyToo ==
    /\ pc = "RemoveConstraints"
    /\ LET table == GenerateTableName(CurrentTable.Table, CurrentTable.Schema)
           more == [k \in 1..Len(oneColumnTable) |->
                       Ev("RemoveConstraints", oneColumnTable[k], << >>, << >>)]
       IN  log' = Append(log \o more, Ev("RemoveConstraints", table, << >>, << >>))
    /\ pc' = "CommitData"
    /\ UNCHANGED << earlier, tables, cmdOptions, collection, skippedTab, oneColumnTable,
                    tIdx, i, cIdx, col, data, dbOpen, sIdx, total >>

\* A variant of lines 110-111 that goes on to CommitData without removing
\* the constraints of the table.
RemoveConstraintsOmitted ==
    /\ pc = "RemoveConstraints"
    /\ pc' = "CommitData"
    /\ UNCHANGED << earlier, tables, cmdOptions, collection, skippedTab, oneColumnTable,
                    tIdx, i, cIdx, col, data, dbOpen, sIdx, total, log >>

\* Lines 110-111.
RemoveConstraints ==
    /\ pc = "RemoveConstraints"
    /\ LET table == GenerateTableName(CurrentTable.Table, CurrentTable.Schema)
       IN  log' = Append(log, Ev("RemoveConstraints", table, << >>, << >>))
    /\ pc' = "CommitData"
    /\ UNCHANGED << earlier, tables, cmdOptions, collection, skippedTab, oneColumnTable,
                    tIdx, i, cIdx, col, data, dbOpen, sIdx, total >>

\* A variant of the return from CommitData that restores the constraints
\* after each table.
CloseAndReturnRestoring(lg) ==
    /\ dbOpen' = FALSE
    /\ log' = Append(Append(lg, Ev("Close", GenerateTableName(CurrentTable.Table, CurrentTable.Schema), << >>, << >>)),
                     Ev("FixConstraints", "", << >>, << >>))
    /\ LoadTable(tIdx + 1)

\* The deferred db.Close() of line 136 and the return to the loop of line 108.
CloseAndReturn(lg) ==
    /\ dbOpen' = FALSE
    /\ log' = Append(lg, Ev("Close", GenerateTableName(CurrentTable.Table, CurrentTable.Schema), << >>, << >>))
    /\ LoadTable(tIdx + 1)

\* A variant of the head of the loop of line 141 that runs once too often.
RowLoopOnceMore(n, lg) ==
    /\ i' = n
    /\ IF n <= cmdOptions.Rows
       THEN /\ pc' = IF Len(CurrentTable.Columns) > 0
                     THEN "BuildData" ELSE "CopyData"
            /\ col' = << >>
            /\ data' = << >>
            /\ cIdx' = 1
            /\ dbOpen' = TRUE
            /\ log' = lg
            /\ UNCHANGED << tIdx, sIdx, total >>
       ELSE /\ CloseAndReturn(lg)
            /\ UNCHANGED << col, data, cIdx >>

\* The head of the loop of line 141 with row counter n, after the calls lg.
RowLoop(n, lg) ==
    /\ i' = n
    /\ IF n < cmdOptions.Rows
       THEN /\ pc' = IF Len(CurrentTable.Columns) > 0
                     THEN "BuildData" ELSE "CopyData"
            /\ col' = << >>
            /\ data' = << >>
            /\ cIdx' = 1
            /\ dbOpen' = TRUE
            /\ log' = lg
            /\ UNCHANGED << tIdx, sIdx, total >>
       ELSE /\ CloseAndReturn(lg)
            /\ UNCHANGED << col, data, cIdx >>

\* CommitData, lines 127-141: connect and enter the row loop.
ConnectDB ==
    /\ pc = "CommitData"
    /\ LET tab == GenerateTableName(CurrentTable.Table, CurrentTable.Schema)
       IN  RowLoop(0, Append(log, Ev("ConnectDB", tab, << >>, << >>)))
    /\ UNCHANGED << earlier, tables, cmdOptions, collection, skippedTab, oneColumnTable >>

\* A variant of lines 150-154 whose break leaves the column loop only: the
\* row goes to CopyData as it is.
SkipTableLeavingColumnLoop(tab, lg) ==
    /\ skippedTab' = Append(skippedTab, tab)
    /\ log' = Append(lg, EvRow("Skipped", tab, << >>, << >>, i))
    /\ pc' = "CopyData"
    /\ UNCHANGED << tIdx, i, cIdx, col, data, dbOpen, sIdx, total >>

\* A variant of lines 150-154 that leaves the loop over the tables too: no
\* later table is loaded.
SkipTableLeavingTableLoop(tab, lg) ==
    /\ skippedTab' = Append(skippedTab, tab)
    /\ dbOpen' = FALSE
    /\ log' = Append(Append(lg, EvRow("Skipped", tab, << >>, << >>, i)),
                     Ev("Close", tab, << >>, << >>))
    /\ LoadTable(Len(collection) + 1)
    /\ UNCHANGED << i, cIdx, col, data >>

\* Lines 150-154: the table is skipped and the row loop left.
SkipTable(tab, lg) ==
    /\ skippedTab' = Append(skippedTab, tab)
    /\ CloseAndReturn(Append(lg, EvRow("Skipped", tab, << >>, << >>, i)))
    /\ UNCHANGED << i, cIdx, col, data >>

\* A variant of line 160 that puts each new value in front of the values
\* the row already has.
BuildDataPrepending ==
    /\ pc = "BuildData"
    /\ LET tab == GenerateTableName(CurrentTable.Table, CurrentTable.Schema)
           c == CurrentTable.Columns[cIdx]
           lg == Append(log, EvRow("BuildData", tab, << c.Column >>, << c.Datatype >>, i))
       IN  \E err \in BuildDataErrors(c.Datatype) :
             IF err # NoErr
             THEN IF HasPrefix(err, "unsupported datatypes found")
                  THEN SkipTable(tab, lg)
                  ELSE \* line 156
                       /\ Fatalf(tab, "BuildData", lg)
                       /\ UNCHANGED << skippedTab, tIdx, i, cIdx, col, data,
                                       dbOpen, sIdx, total >>
             ELSE \* lines 159-160, and line 164 after the last column
                  /\ col' = Append(col, c.Column)
                  /\ data' = << BuildDataValue(c.Datatype) >> \o data
                  /\ cIdx' = cIdx + 1
                  /\ pc' = IF cIdx + 1 > Len(CurrentTable.Columns)
                           THEN "CopyData" ELSE "BuildData"
                  /\ log' = lg
                  /\ UNCHANGED << skippedTab, tIdx, i, dbOpen, sIdx, total >>
    /\ UNCHANGED << earlier, tables, cmdOptions, collection, oneColumnTable >>

\* CommitData, lines 146-161: the value of one column of row i.
BuildData ==
    /\ pc = "BuildData"
    /\ LET tab == GenerateTableName(CurrentTable.Table, CurrentTable.Schema)
           c == CurrentTable.Columns[cIdx]
           lg == Append(log, EvRow("BuildData", tab, << c.Column >>, << c.Datatype >>, i))
       IN  \E err \in BuildDataErrors(c.Datatype) :
             IF err # NoErr
             THEN IF HasPrefix(err, "unsupported datatypes found")
                  THEN SkipTable(tab, lg)
                  ELSE \* line 156
                       /\ Fatalf(tab, "BuildData", lg)
                       /\ UNCHANGED << skippedTab, tIdx, i, cIdx, col, data,
                                       dbOpen, sIdx, total >>
             ELSE \* lines 159-160, and line 164 after the last column
                  /\ col' = Append(col, c.Column)
                  /\ data' = Append(data, BuildDataValue(c.Datatype))
                  /\ cIdx' = cIdx + 1
                  /\ pc' = IF cIdx + 1 > Len(CurrentTable.Columns)
                           THEN "CopyData" ELSE "BuildData"
                  /\ log' = lg
                  /\ UNCHANGED << skippedTab, tIdx, i, dbOpen, sIdx, total >>
    /\ UNCHANGED << earlier, tables, cmdOptions, collection, oneColumnTable >>

\* A variant of CopyData whose error branch does not end the process: the
\* failure is noted and the row loop goes on.
CopyDataGoingOn ==
    /\ pc = "CopyData"
    /\ LET tab == GenerateTableName(CurrentTable.Table, CurrentTable.Schema)
       IN  \E err \in DBErrors :
             IF err # NoErr
             THEN RowLoop(i + 1, Append(log, Ev("Failed", tab, << >>, << "CopyFrom" >>)))
             ELSE RowLoop(i + 1, Append(log, EvRow("CopyFrom", tab, col, data, i)))
    /\ UNCHANGED << earlier, tables, cmdOptions, collection, skippedTab, oneColumnTable >>

\* CopyData, lines 170-183, and lines 165-166 and 141 after it.
CopyData ==
    /\ pc = "CopyData"
    /\ LET tab == GenerateTableName(CurrentTable.Table, CurrentTable.Schema)
       IN  \E err \in DBErrors :
             IF err # NoErr
             THEN \* lines 177-182
                  /\ Fatalf(tab, "CopyFrom", log)
                  /\ UNCHANGED << tIdx, i, cIdx, col, data, dbOpen, sIdx, total >>
             ELSE RowLoop(i + 1, Append(log, EvRow("CopyFrom", tab, col, data, i)))
    /\ UNCHANGED << earlier, tables, cmdOptions, collection, skippedTab, oneColumnTable >>

\* addDataIfItsASerialDatatype, lines 199-218: one turn of its loops.
InsertDefaultValues ==
    /\ pc = "addDataIfItsASerialDatatype"
    /\ IF sIdx > Len(oneColumnTable)
       THEN \* line 200: the list is exhausted; line 121 is next
            /\ pc' = "skipTablesWarning"
            /\ UNCHANGED << sIdx, total, log >>
       ELSE IF ~(total < cmdOptions.Rows)
       THEN \* line 207: this table has its rows; the next table
            /\ sIdx' = sIdx + 1
            /\ total' = 0
            /\ UNCHANGED << pc, log >>
       ELSE \* lines 208-215
            LET t == oneColumnTable[sIdx]
            IN  \E err \in DBErrors :
                  IF err # NoErr
                  THEN /\ Fatalf(t, "ExecuteDB", log)
                       /\ UNCHANGED << sIdx, total >>
                  ELSE /\ total' = total + 1
                       /\ log' = Append(log, Ev("InsertDefaultValues", t, << >>, << >>))
                       /\ UNCHANGED << pc, sIdx >>
    /\ UNCHANGED << earlier, tables, cmdOptions, collection, skippedTab, oneColumnTable,
                    tIdx, i, cIdx, col, data, dbOpen >>

\* A variant of lines 121-123 that reports the completion first and warns
\* of the skipped tables after it.
SkipTablesWarningAfterCompletion ==
    /\ pc = "skipTablesWarning"
    /\ LET lg == Append(log, Ev("Completed", "", << >>, << >>))
       IN  log' = IF Len(skippedTab) > 0
                  THEN Append(lg, Ev("Warn", "These tables are skipped", << >>, skippedTab))
                  ELSE lg
    /\ pc' = "FixConstraints"
    /\ UNCHANGED << earlier, tables, cmdOptions, collection, skippedTab, oneColumnTable,
                    tIdx, i, cIdx, col, data, dbOpen, sIdx, total >>

\* skipTablesWarning, lines 234-239, and line 123.
SkipTablesWarning ==
    /\ pc = "skipTablesWarning"
    /\ LET lg == IF Len(skippedTab) > 0
                 THEN Append(log, Ev("Warn", "These tables are skipped", << >>, skippedTab))
                 ELSE log
       IN  log' = Append(lg, Ev("Completed", "", << >>, << >>))
    /\ pc' = "FixConstraints"
    /\ UNCHANGED << earlier, tables, cmdOptions, collection, skippedTab, oneColumnTable,
                    tIdx, i, cIdx, col, data, dbOpen, sIdx, total >>

\* MockTable, lines 28-30, after tableMocker has returned.
FixConstraints ==
    /\ pc = "FixConstraints"
    /\ IF ~cmdOptions.IgnoreConstraint
       THEN log' = Append(log, Ev("FixConstraints", "", << >>, << >>))
       ELSE UNCHANGED log
    /\ pc' = "done"
    /\ UNCHANGED << earlier, tables, cmdOptions, collection, skippedTab, oneColumnTable,
                    tIdx, i, cIdx, col, data, dbOpen, sIdx, total >>

Next ==
    \/ MockTable
    \/ YesOrNoConfirmation
    \/ ExtractColumns
    \/ BackupDDL
    \/ RemoveConstraints
    \/ ConnectDB
    \/ BuildData
    \/ CopyData
    \/ InsertDefaultValues
    \/ SkipTablesWarning
    \/ FixConstraints

Spec == Init /\ [][Next]_vars

\* The lists of tables a second call of MockTable is given: the list of the
\* first call, or that list without its first table.
SecondCallTables == {tables} \cup {SubSeq(tables, 2, Len(tables))}

\* MockTable is called a second time in the same process, after the first
\* call has returned.  The package variables skippedTab and oneColumnTable
\* (lines 14-19) keep their values: no line of the file resets them.  The
\* locals of the functions are new, and `log' starts again with this call.
SecondCall ==
    /\ pc = "done"
    /\ earlier = << >>
    /\ earlier' = << [tables |-> tables,
                      collection |-> collection,
                      skippedTab |-> skippedTab,
                      oneColumnTable |-> oneColumnTable] >>
    /\ tables' \in SecondCallTables
    /\ pc' = "MockTable"
    /\ collection' = << >>
    /\ tIdx' = 0
    /\ i' = 0
    /\ cIdx' = 0
    /\ col' = << >>
    /\ data' = << >>
    /\ dbOpen' = FALSE
    /\ sIdx' = 0
    /\ total' = 0
    /\ log' = << >>
    /\ UNCHANGED << cmdOptions, skippedTab, oneColumnTable >>

NextTwice ==
    \/ Next
    \/ SecondCall

\* A process that calls MockTable once or twice.
SpecTwice == Init /\ [][NextTwice]_vars

\* ------------------------------------------------- reading the log of calls
\* The positions of the calls of `op'.
Calls(op) == {k \in DOMAIN log : log[k].op = op}

\* The positions of the calls of `op' on table `tab'.
CallsOn(op, tab) == {k \in DOMAIN log : log[k].op = op /\ log[k].arg = tab}

\* The elements of a sequence.
Range(s) == {s[k] : k \in DOMAIN s}

\* The qualified name under which the database knows table t.
QualifiedName(t) == "\"" \o t.Schema \o "\".\"" \o t.Table \o "\""

\* A column is sequence-backed iff its default expression starts with the
\* sequence-next-value marker.
SequenceBacked(c) ==
    /\ Len(c.Sequence) >= 7
    /\ SubSeq(c.Sequence, 1, 7) = "nextval"

\* The columns of a list that are not sequence-backed, in their order.
NotSequenceBacked(columns) == SelectSeq(columns, LAMBDA c : ~SequenceBacked(c))

\* Classification has been done.
Classified == pc \notin {"MockTable", "tableMocker", "columnExtractor"}

\* The run has ended without a fatal error.
EndedCleanly == pc = "done"

\* The operations of the load phase and after.
LoadOps == {"RemoveConstraints", "ConnectDB", "BuildData", "Skipped",
            "CopyFrom", "Close", "InsertDefaultValues"}

\* ---------------------------------------------------------------- claims

\* C1: in every run with a non-empty table list that ends without a fatal
\* error, each table registered in oneColumnTable (SequenceOnlyTable) has
\* received exactly cmdOptions.Rows default-value insertions, also when the
\* run produced no TableCollection.
C1_SequenceOnlyTablesGetRowCountInsertions ==
    (EndedCleanly /\ Len(tables) > 0) =>
        \A k \in DOMAIN oneColumnTable :
            Cardinality(CallsOn("InsertDefaultValues", oneColumnTable[k]))
                = cmdOptions.Rows

\* C2 (as stated): with IgnoreConstraint set, no DDL backup, no
\* RemoveConstraints and no FixConstraints call is made; without it, a run
\* that loads tables and ends makes the backup, the removals and the restore.
C2_IgnoreConstraintSkipsBackupRemoveAndRestore ==
    /\ cmdOptions.IgnoreConstraint =>
          /\ Calls("BackupDDL") = {}
          /\ Calls("RemoveConstraints") = {}
          /\ Calls("FixConstraints") = {}
    /\ (~cmdOptions.IgnoreConstraint /\ EndedCleanly /\ Len(collection) > 0) =>
          /\ Cardinality(Calls("BackupDDL")) = 1
          /\ \A k \in DOMAIN collection :
                Cardinality(CallsOn("RemoveConstraints", QualifiedName(collection[k]))) = 1
          /\ Cardinality(Calls("FixConstraints")) = 1

\* C2 (amended): IgnoreConstraint skips only the restore.  With it set,
\* FixConstraints is never called; set or not, every row written by a bulk
\* commit comes after the DDL backup and after RemoveConstraints on its table,
\* and a run that loads tables and ends has made one backup, one removal per
\* TableCollection, and one restore exactly when the option is not set.
C2_IgnoreConstraintSkipsOnlyRestore ==
    /\ cmdOptions.IgnoreConstraint => Calls("FixConstraints") = {}
    /\ \A k \in Calls("CopyFrom") :
          /\ \E b \in Calls("BackupDDL") : b < k
          /\ \E r \in CallsOn("RemoveConstraints", log[k].arg) : r < k
    /\ (EndedCleanly /\ Len(collection) > 0) =>
          /\ Cardinality(Calls("BackupDDL")) = 1
          /\ \A k \in DOMAIN collection :
                Cardinality(CallsOn("RemoveConstraints", QualifiedName(collection[k]))) = 1
          /\ Cardinality(Calls("FixConstraints"))
                = IF cmdOptions.IgnoreConstraint THEN 0 ELSE 1

\* C2 witness: a run with IgnoreConstraint set has backed up the DDL, removed
\* constraints, committed rows and ended.
C2_Witness ==
    /\ EndedCleanly
    /\ cmdOptions.IgnoreConstraint
    /\ Calls("BackupDDL") # {}
    /\ Calls("RemoveConstraints") # {}
    /\ Calls("CopyFrom") # {}

\* C3: with an empty table list the run ends at once with the "no table"
\* warning: no prompt, no classification, no backup, no constraint removal,
\* no load and no restore.
C3_EmptyTableListDoesNothing ==
    Len(tables) = 0 =>
        /\ pc \in {"MockTable", "done"}
        /\ collection = << >>
        /\ oneColumnTable = << >>
        /\ skippedTab = << >>
        /\ \A k \in DOMAIN log :
              /\ log[k].op = "Warn"
              /\ log[k].arg = "No table available to mock the data, closing the program"
        /\ pc = "done" => Len(log) = 1

\* C3 witness: a run with an empty table list has ended.
C3_Witness == Len(tables) = 0 /\ pc = "done" /\ Len(log) = 1

\* C4 (as stated): when classification of a non-empty table list yields no
\* TableCollection, the run warns and makes no backup, no constraint removal,
\* no bulk commit, no default-value insertion and no restore.
C4_EmptyClassificationRunsNoLaterState ==
    (Len(tables) > 0 /\ Classified /\ Len(collection) = 0) =>
        /\ Cardinality(Calls("Warn")) = 1
        /\ Calls("BackupDDL") = {}
        /\ LoadOps \cap {log[k].op : k \in DOMAIN log} = {}
        /\ Calls("FixConstraints") = {}

\* C4 (amended): when classification of a non-empty table list yields no
\* TableCollection, the run warns and makes no backup, no constraint removal,
\* no bulk commit and no default-value insertion; FixConstraints is still
\* called, once and as the last call, unless IgnoreConstraint is set.
C4_EmptyClassificationOnlyRestores ==
    (Len(tables) > 0 /\ Classified /\ Len(collection) = 0) =>
        /\ pc \in {"FixConstraints", "done"}
        /\ Cardinality(Calls("Warn")) = 1
        /\ \A k \in Calls("Warn") :
              log[k].arg = "No columns available to mock the data, closing the program"
        /\ Calls("BackupDDL") = {}
        /\ LoadOps \cap {log[k].op : k \in DOMAIN log} = {}
        /\ Calls("FixConstraints") \subseteq {Len(log)}
        /\ pc = "done" =>
              (Calls("FixConstraints") = {} <=> cmdOptions.IgnoreConstraint)

\* C4 witness: a run whose classification yielded no TableCollection has
\* ended with the restore called.
C4_Witness ==
    /\ Len(tables) > 0
    /\ pc = "done"
    /\ Len(collection) = 0
    /\ Calls("FixConstraints") # {}

\* C5: FixConstraints is called at most once, after every call of the load
\* phase (no table load or insertion follows it); in a run that completes the
\* load phase every TableCollection's session has been closed and every
\* sequence-only table has its insertions before it, and unless
\* IgnoreConstraint is set such a run that ends has called it exactly once.
C5_RestoreOnceAfterAllLoads ==
    /\ Cardinality(Calls("FixConstraints")) <= 1
    /\ \A f \in Calls("FixConstraints") :
          /\ \A k \in DOMAIN log : log[k].op \in LoadOps => k < f
          /\ Len(collection) > 0 =>
                /\ \A k \in DOMAIN collection :
                      \E c \in CallsOn("Close", QualifiedName(collection[k])) : c < f
                /\ \A k \in DOMAIN oneColumnTable :
                      Cardinality({n \in CallsOn("InsertDefaultValues", oneColumnTable[k]) : n < f})
                          = cmdOptions.Rows
    /\ (EndedCleanly /\ Calls("Completed") # {} /\ ~cmdOptions.IgnoreConstraint) =>
          Cardinality(Calls("FixConstraints")) = 1

\* C5 witness: a run that loaded two TableCollections and a sequence-only
\* table has ended with the restore called.
C5_Witness ==
    /\ EndedCleanly
    /\ Len(collection) >= 2
    /\ Calls("InsertDefaultValues") # {}
    /\ Calls("CopyFrom") # {}
    /\ Calls("FixConstraints") # {}

\* The TableCollections built for table t.
CollectionsOf(t) ==
    {k \in DOMAIN collection :
        collection[k].Schema = t.Schema /\ collection[k].Table = t.Table}

\* C6: after classification every table with a column that is not
\* sequence-backed has one TableCollection, holding exactly those columns in
\* their original order; a table without such a column has none; and every
\* column a value is synthesized for is a column of its table that is not
\* sequence-backed.
C6_CollectionHoldsExactlyNonSequenceColumns ==
    /\ Classified =>
          /\ \A n \in DOMAIN tables :
                LET wanted == NotSequenceBacked(enumerateColumns(tables[n]))
                IN  IF wanted = << >>
                    THEN CollectionsOf(tables[n]) = {}
                    ELSE /\ Cardinality(CollectionsOf(tables[n])) = 1
                         /\ \A k \in CollectionsOf(tables[n]) :
                               collection[k].Columns = wanted
          /\ \A k \in DOMAIN collection :
                /\ \E n \in DOMAIN tables : k \in CollectionsOf(tables[n])
                /\ \A m \in DOMAIN collection[k].Columns :
                      ~SequenceBacked(collection[k].Columns[m])
    /\ \A b \in Calls("BuildData") :
          \E n \in DOMAIN tables :
             /\ QualifiedName(tables[n]) = log[b].arg
             /\ \E c \in Range(enumerateColumns(tables[n])) :
                   /\ ~SequenceBacked(c)
                   /\ log[b].col = << c.Column >>
                   /\ log[b].data = << c.Datatype >>

\* C6 witness: a table with a sequence-backed column between two others has
\* a TableCollection of the two others and values were synthesized for it.
C6_Witness ==
    \E k \in DOMAIN collection :
        /\ Len(collection[k].Columns) = 2
        /\ Len(enumerateColumns([Schema |-> collection[k].Schema,
                                 Table |-> collection[k].Table])) = 3
        /\ Cardinality(CallsOn("BuildData", QualifiedName(collection[k]))) >= 2

\* Table t has exactly one column and that column is sequence-backed.
OneSequenceColumn(t) ==
    /\ Len(enumerateColumns(t)) = 1
    /\ SequenceBacked(enumerateColumns(t)[1])

\* C7: after classification a table of the list is in oneColumnTable iff it
\* has exactly one column and that column is sequence-backed; such a table has
\* no TableCollection; oneColumnTable names tables of the list only, and no
\* table with a TableCollection.
C7_OneSequenceColumnTablesAreSetAside ==
    Classified =>
        /\ \A n \in DOMAIN tables :
              /\ OneSequenceColumn(tables[n])
                    <=> QualifiedName(tables[n]) \in Range(oneColumnTable)
              /\ OneSequenceColumn(tables[n]) => CollectionsOf(tables[n]) = {}
        /\ \A k \in DOMAIN oneColumnTable :
              \E n \in DOMAIN tables : QualifiedName(tables[n]) = oneColumnTable[k]
        /\ \A k \in DOMAIN collection :
              QualifiedName(collection[k]) \notin Range(oneColumnTable)

\* C7 witness: classification has set a table aside and built a
\* TableCollection for another table, which has one column too.
C7_Witness ==
    /\ Classified
    /\ oneColumnTable # << >>
    /\ \E k \in DOMAIN collection :
          Len(enumerateColumns([Schema |-> collection[k].Schema,
                                Table |-> collection[k].Table])) = 1

\* Table t has several columns, all sequence-backed, or no column at all.
SilentlyExcluded(t) ==
    LET columns == enumerateColumns(t)
    IN  \/ Len(columns) = 0
        \/ /\ Len(columns) > 1
           /\ \A m \in DOMAIN columns : SequenceBacked(columns[m])

\* C8: a table whose columns are several and all sequence-backed, or that has
\* no column, is never in oneColumnTable, never has a TableCollection, and
\* never receives a call of the load phase: no constraint removal, no bulk
\* commit and no default-value insertion.
C8_AllSequenceOrNoColumnTablesGetNothing ==
    \A n \in DOMAIN tables :
        SilentlyExcluded(tables[n]) =>
            /\ QualifiedName(tables[n]) \notin Range(oneColumnTable)
            /\ CollectionsOf(tables[n]) = {}
            /\ \A k \in DOMAIN log :
                  log[k].op \in LoadOps => log[k].arg # QualifiedName(tables[n])

\* C8 witness: a run with a table of two sequence-backed columns and a table
\* without columns has committed rows, inserted default rows, and ended.
C8_Witness ==
    /\ EndedCleanly
    /\ \E n \in DOMAIN tables : Len(enumerateColumns(tables[n])) = 0
    /\ \E n \in DOMAIN tables : Len(enumerateColumns(tables[n])) > 1
                                    /\ SilentlyExcluded(tables[n])
    /\ Calls("CopyFrom") # {}

\* The load of table `tab' has finished: its session has been closed.
LoadFinished(tab) == CallsOn("Close", tab) # {}

\* C9: when the load of a TableCollection has finished without the table
\* being skipped, exactly cmdOptions.Rows rows have been committed to it, and
\* no row is committed to it afterwards.
C9_FinishedLoadCommitsRowCountRows ==
    \A k \in DOMAIN collection :
        LET tab == QualifiedName(collection[k])
        IN  (LoadFinished(tab) /\ CallsOn("Skipped", tab) = {}) =>
                /\ Cardinality(CallsOn("CopyFrom", tab)) = cmdOptions.Rows
                /\ \A c \in CallsOn("CopyFrom", tab) :
                      \A e \in CallsOn("Close", tab) : c < e

\* C9 witness: two tables have been loaded without a skip, with two rows each.
C9_Witness ==
    /\ cmdOptions.Rows = 2
    /\ skippedTab = << >>
    /\ \E j, k \in DOMAIN collection :
          /\ j # k
          /\ LoadFinished(QualifiedName(collection[j]))
          /\ LoadFinished(QualifiedName(collection[k]))
          /\ Cardinality(CallsOn("CopyFrom", QualifiedName(collection[k]))) = 2

\* C10: when BuildData fails with the unsupported-datatype error in row r of
\* table T, the rows committed to T are exactly rows 0..r-1, each once, each
\* with all the columns of its TableCollection and each before the failure; T
\* is in skippedTab exactly once; and the run goes on: the session is closed
\* and the flow is not at a fatal end because of the skip.
C10_SkipKeepsEarlierRowsAndGoesOn ==
    \A s \in Calls("Skipped") :
        LET T == log[s].arg
            r == log[s].row
        IN  /\ {log[c].row : c \in CallsOn("CopyFrom", T)} = 0..(r - 1)
            /\ Cardinality(CallsOn("CopyFrom", T)) = r
            /\ \A c \in CallsOn("CopyFrom", T) :
                  /\ c < s
                  /\ \E k \in DOMAIN collection :
                        /\ QualifiedName(collection[k]) = T
                        /\ Len(log[c].col) = Len(collection[k].Columns)
                        /\ Len(log[c].data) = Len(collection[k].Columns)
            /\ Cardinality({k \in DOMAIN skippedTab : skippedTab[k] = T}) = 1
            /\ Cardinality(CallsOn("Skipped", T)) = 1
            /\ \A b \in CallsOn("BuildData", T) : b < s
            /\ s < Len(log) /\ log[s + 1].op = "Close" /\ log[s + 1].arg = T
            /\ (Len(log) > s + 1 => log[s + 2].op \notin {"Failed", "Fatalf"}
                                      \/ log[s + 2].arg # T)
            /\ (Len(log) = s + 1 => pc # "fatal")

\* C10 witness: a table was skipped in its second row, after its first row
\* was committed, another table was loaded after it, and the run has ended.
C10_Witness ==
    /\ EndedCleanly
    /\ \E s \in Calls("Skipped") :
          /\ log[s].row = 1
          /\ Cardinality(CallsOn("CopyFrom", log[s].arg)) = 1
          /\ \E c \in Calls("CopyFrom") : c > s

\* The TableCollections before collection[k] that were skipped.
SkippedBefore(k) ==
    {j \in 1..(k - 1) : CallsOn("Skipped", QualifiedName(collection[j])) # {}}

\* C11: a TableCollection that follows a skipped one is still loaded: when
\* its load has finished without a skip of its own, its constraints were
\* removed once and exactly cmdOptions.Rows rows were committed to it; and a
\* run with a skipped table that meets no fatal error ends with every
\* TableCollection attempted, every sequence-only table given its
\* cmdOptions.Rows insertions, and the restore called unless it is disabled.
C11_SkipDoesNotAffectLaterTables ==
    /\ \A k \in DOMAIN collection :
          LET tab == QualifiedName(collection[k])
          IN  SkippedBefore(k) # {} =>
                /\ (LoadFinished(tab) /\ CallsOn("Skipped", tab) = {}) =>
                      /\ Cardinality(CallsOn("RemoveConstraints", tab)) = 1
                      /\ Cardinality(CallsOn("CopyFrom", tab)) = cmdOptions.Rows
                /\ EndedCleanly => LoadFinished(tab)
    /\ (EndedCleanly /\ Calls("Skipped") # {}) =>
          /\ \A k \in DOMAIN oneColumnTable :
                Cardinality(CallsOn("InsertDefaultValues", oneColumnTable[k]))
                    = cmdOptions.Rows
          /\ Cardinality(Calls("FixConstraints"))
                = IF cmdOptions.IgnoreConstraint THEN 0 ELSE 1

\* C11 witness: the first TableCollection was skipped, the second got its two
\* rows, a sequence-only table got its insertions, the restore was called.
C11_Witness ==
    /\ EndedCleanly
    /\ cmdOptions.Rows = 2
    /\ Len(collection) >= 2
    /\ CallsOn("Skipped", QualifiedName(collection[1])) # {}
    /\ Cardinality(CallsOn("CopyFrom", QualifiedName(collection[2]))) = 2
    /\ Calls("InsertDefaultValues") # {}
    /\ Calls("FixConstraints") # {}

C19_SecondCallStartsEmpty ==
    earlier # << >> =>
        /\ pc = "MockTable" => (skippedTab = << >> /\ oneColumnTable = << >>)
        /\ \A w \in CallsOn("Warn", "These tables are skipped") :
              \A t \in Range(log[w].data) : CallsOn("Skipped", t) # {}
        /\ \A n \in Calls("InsertDefaultValues") :
              \E k \in DOMAIN tables : QualifiedName(tables[k]) = log[n].arg

\* The calls that load a TableCollection.
CommitOps == {"ConnectDB", "BuildData", "Skipped", "CopyFrom", "Close"}

\* The calls that make the report: the warning of skipped tables and the
\* message of completion.
ReportCalls == CallsOn("Warn", "These tables are skipped") \cup Calls("Completed")

\* The run reached the load phase and returned.
LoadedAndCompleted == pc = "done" /\ Calls("BackupDDL") # {}

\* C14 as stated: a run that reaches the load phase and completes removes
\* all constraints before the first load, loads, makes the sequence-only
\* insertions, restores the constraints and then reports, so that the report
\* of skipped tables follows the restore and the report is the last call.
C14_RestoreThenReportLast ==
    LoadedAndCompleted =>
        /\ \A r \in Calls("RemoveConstraints") : \A l \in DOMAIN log :
              log[l].op \in CommitOps => r < l
        /\ \A l \in DOMAIN log : \A n \in Calls("InsertDefaultValues") :
              log[l].op \in CommitOps => l < n
        /\ \A n \in Calls("InsertDefaultValues") : \A f \in Calls("FixConstraints") : n < f
        /\ \A f \in Calls("FixConstraints") : \A w \in ReportCalls : f < w
        /\ log[Len(log)].op = "Completed"

\* The stage of the run a call belongs to, in the order of the code: backup,
\* removal and load table by table, sequence-only insertions, report, restore.
Stage(e) ==
    CASE e.op = "YesOrNoConfirmation" -> 0
      [] e.op = "BackupDDL" -> 1
      [] e.op \in CommitOps \cup {"RemoveConstraints"} -> 2
      [] e.op = "InsertDefaultValues" -> 3
      [] e.op \in {"Warn", "Completed"} -> 4
      [] e.op = "FixConstraints" -> 5
      [] OTHER -> 6

\* C14 amended: a run that reaches the load phase and completes goes through
\* backup, removal and load table by table, sequence-only insertions, report
\* and restore in this order without going back; the warning of skipped
\* tables is given at most once, directly before the message of completion,
\* and both precede the restore, which is the last call of the run unless it
\* is disabled.
C14_ReportThenRestoreLast ==
    LoadedAndCompleted =>
        /\ \A k \in 1..(Len(log) - 1) : Stage(log[k]) <= Stage(log[k + 1])
        /\ Cardinality(Calls("BackupDDL")) = 1
        /\ Cardinality(Calls("Completed")) = 1
        /\ Cardinality(Calls("Warn")) <= 1
        /\ \A w \in Calls("Warn") :
              /\ log[w].arg = "These tables are skipped"
              /\ log[w + 1].op = "Completed"
        /\ \A n \in Calls("InsertDefaultValues") : \A w \in ReportCalls : n < w
        /\ \A w \in ReportCalls : \A f \in Calls("FixConstraints") : w < f
        /\ log[Len(log)].op = (IF cmdOptions.IgnoreConstraint
                               THEN "Completed" ELSE "FixConstraints")

\* C14 witness: a completed run that loaded a table, skipped another, made
\* a sequence-only insertion, warned of the skipped table and restored.
C14_Witness ==
    /\ LoadedAndCompleted
    /\ Calls("CopyFrom") # {}
    /\ Calls("InsertDefaultValues") # {}
    /\ CallsOn("Warn", "These tables are skipped") # {}
    /\ Calls("FixConstraints") # {}

\* C15: the DDL backup precedes every RemoveConstraints call, and for every
\* TableCollection the session is opened and every row is committed only
\* after RemoveConstraints has been called on that table.
C15_BackupThenRemoveThenCommit ==
    /\ \A r \in Calls("RemoveConstraints") : \E b \in Calls("BackupDDL") : b < r
    /\ \A k \in DOMAIN collection :
          LET tab == QualifiedName(collection[k])
          IN  \A c \in CallsOn("ConnectDB", tab) \cup CallsOn("CopyFrom", tab) :
                  \E r \in CallsOn("RemoveConstraints", tab) : r < c

\* C15 witness: rows have been committed to two TableCollections.
C15_Witness ==
    \E j, k \in DOMAIN collection :
        /\ j # k
        /\ CallsOn("CopyFrom", QualifiedName(collection[j])) # {}
        /\ CallsOn("CopyFrom", QualifiedName(collection[k])) # {}

\* The positions of the calls made for TableCollection k: the removal of its
\* constraints and its load.
CallsFor(k) ==
    {n \in DOMAIN log :
        /\ log[n].op \in CommitOps \cup {"RemoveConstraints"}
        /\ log[n].arg = QualifiedName(collection[k])}

\* C16: the TableCollections are loaded one after the other in the order of
\* classification, every call for one table preceding every call for the
\* next; a value of row i+1 is synthesized only after row i has been
\* committed; and every sequence-only insertion follows the finished load of
\* every TableCollection.
C16_TablesAndRowsOneAfterTheOther ==
    /\ \A j, k \in DOMAIN collection :
          j < k => \A m \in CallsFor(j) : \A n \in CallsFor(k) : m < n
    /\ \A b \in Calls("BuildData") :
          log[b].row > 0 =>
              \E c \in CallsOn("CopyFrom", log[b].arg) :
                  c < b /\ log[c].row = log[b].row - 1
    /\ \A n \in Calls("InsertDefaultValues") :
          \A k \in DOMAIN collection :
              /\ CallsOn("Close", QualifiedName(collection[k])) # {}
              /\ \A m \in CallsFor(k) : m < n

\* C16 witness: two TableCollections were loaded, a second row was built
\* for each, and a sequence-only insertion was made.
C16_Witness ==
    /\ Len(collection) = 2
    /\ \A k \in DOMAIN collection :
          \E b \in CallsOn("BuildData", QualifiedName(collection[k])) : log[b].row = 1
    /\ Calls("InsertDefaultValues") # {}

\* The number of sessions that were opened and not closed.
OpenSessions == Cardinality(Calls("ConnectDB")) - Cardinality(Calls("Close"))

\* The places of the run outside the load of a table: before a table's
\* session is opened, after the table loop, and at the end of the process.
OutsideLoad == {"RemoveConstraints", "CommitData", "addDataIfItsASerialDatatype",
                "skipTablesWarning", "FixConstraints", "done", "fatal"}

\* C17: the session of a table is opened before its first value is built,
\* at most one session is open at any time, and no session is open outside
\* the load of a table: when the next table is reached and when the run
\* has ended, be it by return or by a fatal error.
C17_SessionReleasedOnEveryExit ==
    /\ \A b \in Calls("BuildData") \cup Calls("CopyFrom") :
          \E c \in CallsOn("ConnectDB", log[b].arg) : c < b
    /\ OpenSessions \in {0, 1}
    /\ dbOpen <=> OpenSessions = 1
    /\ pc \in OutsideLoad => ~dbOpen

\* C18: in every CopyFrom call the list of column names and the list of
\* values have the length of the column list of the table's TableCollection;
\* the names are those columns in their order, and the value at each position
\* was synthesized from the datatype of the column named at that position.
C18_NamesAndValuesAligned ==
    \A c \in Calls("CopyFrom") :
        \E k \in DOMAIN collection :
            LET columns == collection[k].Columns
            IN  /\ log[c].arg = QualifiedName(collection[k])
                /\ Len(log[c].col) = Len(columns)
                /\ Len(log[c].data) = Len(columns)
                /\ \A m \in DOMAIN columns :
                      /\ log[c].col[m] = columns[m].Column
                      /\ log[c].data[m] = BuildDataValue(columns[m].Datatype)

\* C18 witness: a row with two columns of different datatypes was committed.
C18_Witness ==
    \E c \in Calls("CopyFrom") :
        /\ Len(log[c].col) = 2
        /\ log[c].data[1] # log[c].data[2]

\* The positions of the calls that put a row into a table.
RowCalls == Calls("CopyFrom") \cup Calls("InsertDefaultValues")

\* C20 as stated: every table that receives a row, by CopyFrom or by an
\* insertion of default values, had RemoveConstraints called on it before.
C20_EveryRowFollowsRemoval ==
    \A n \in RowCalls :
        \E r \in CallsOn("RemoveConstraints", log[n].arg) : r < n

\* C20 amended: every table that receives a row by CopyFrom had
\* RemoveConstraints called on it before, and a table that receives a row by
\* an insertion of default values has no RemoveConstraints call in the run.
C20_OnlyCopiedRowsFollowRemoval ==
    /\ \A n \in Calls("CopyFrom") :
          \E r \in CallsOn("RemoveConstraints", log[n].arg) : r < n
    /\ \A n \in Calls("InsertDefaultValues") :
          CallsOn("RemoveConstraints", log[n].arg) = {}

\* C20 witness: one table received a row by CopyFrom and another by an
\* insertion of default values.
C20_Witness ==
    /\ Calls("CopyFrom") # {}
    /\ Calls("InsertDefaultValues") # {}

====
